---- MODULE Spec2Model ----
(***************************************************************************)
(* Model of fix_kdoc.py: the KDoc block repairer (fix_kdoc_in_file) and    *)
(* the driver (main) that applies it to every *.kt file of a directory.    *)
(*                                                                         *)
(* A line and a file name are sequences of one-character strings, so that  *)
(* str.startswith, the glob suffix match and the lexicographic sort are    *)
(* computed character by character.  Sequences are 1-based here; a run     *)
(* <<s, e>> covers the lines s .. e-1 (the code's i .. j-1, shifted by 1). *)
(***************************************************************************)
EXTENDS Integers, Sequences, FiniteSets, TLC

\* ------------------------------------------------------------------ bounds
MaxLen == 3          \* total number of lines over the .kt files of the directory
MaxRuns == 2         \* number of times the script is run on the directory

\* --------------------------------------------------------------- constants
\* variant: the body prefix with four spaces of indentation instead of five
BarePrefixFour == <<" ", " ", " ", " ", "*", " ">>

\* variant: a closing line with a space between the asterisk and the slash
CloseMarkerBare == <<" ", " ", " ", " ", " ", "*", " ", "/", "\n">>

BarePrefix == <<" ", " ", " ", " ", " ", "*", " ">>
OpenPrefix == <<" ", " ", " ", " ", "/", "*", "*">>
OpenMarker == <<" ", " ", " ", " ", "/", "*", "*", "\n">>
CloseMarker == <<" ", " ", " ", " ", " ", "*", "/", "\n">>
KtSuffix == <<".", "k", "t">>

\* Lines the input files are made of at first: two distinct comment-body
\* lines, the opening delimiter line, and an empty line (shorter than either
\* prefix).  The closing delimiter line enters the files with the first run.
BodyA == <<" ", " ", " ", " ", " ", "*", " ", "a", "\n">>
BodyB == <<" ", " ", " ", " ", " ", "*", " ", "b", "\n">>
Blank == <<"\n">>
LineSet == {BodyA, BodyB, OpenMarker, Blank}

\* Directory entries: two files the glob matches and one it does not.
NameAB == <<"a", "b", ".", "k", "t">>
NameB == <<"b", ".", "k", "t">>
NameKts == <<"c", ".", "k", "t", "s">>

\* ----------------------------------------------------------- pure helpers
StartsWith(s, p) == Len(s) >= Len(p) /\ SubSeq(s, 1, Len(p)) = p

EndsWith(s, p) == Len(s) >= Len(p) /\ SubSeq(s, Len(s) - Len(p) + 1, Len(s)) = p

\* code point of a character, for the comparison of file names
Ord(c) ==
    CASE c = "." -> 46
      [] c = "a" -> 97
      [] c = "b" -> 98
      [] c = "c" -> 99
      [] c = "k" -> 107
      [] c = "s" -> 115
      [] c = "t" -> 116

RECURSIVE LexLess(_, _)
LexLess(a, b) ==
    IF b = <<>> THEN FALSE
    ELSE IF a = <<>> THEN TRUE
    ELSE IF Ord(Head(a)) # Ord(Head(b)) THEN Ord(Head(a)) < Ord(Head(b))
    ELSE LexLess(Tail(a), Tail(b))

RECURSIVE Insert(_, _)
Insert(x, s) ==
    IF s = <<>> THEN <<x>>
    ELSE IF LexLess(x, Head(s)) THEN <<x>> \o s
    ELSE <<Head(s)>> \o Insert(x, Tail(s))

RECURSIVE InsertionSort(_)
InsertionSort(s) ==
    IF s = <<>> THEN <<>> ELSE Insert(Head(s), InsertionSort(Tail(s)))

\* variant: the files taken in the order glob yields them
Unsorted(s) == s

\* sorted(kotlin_files)
Sorted(s) == InsertionSort(s)

\* the orders in which glob may yield the members of a set
Perms(S) == {p \in [1..Cardinality(S) -> S] : \A x \in S : \E k \in DOMAIN p : p[k] = x}

\* viewmodel_dir.glob('*.kt') over the entries of the directory
GlobKt(entries) == {n \in entries : EndsWith(n, KtSuffix)}

\* ----------------------------------------------------- fix_kdoc_in_file
\* the test that starts a comment block
IsBrokenKDoc(line) == StartsWith(line, BarePrefix) /\ ~StartsWith(line, OpenPrefix)

\* variant: a block that ends after its first line
CommentEndShort(lines, j) == j + 1

\* the inner while loop: first index at or after j whose line is no body line
RECURSIVE CommentEnd(_, _)
CommentEnd(lines, j) ==
    IF j <= Len(lines) /\ StartsWith(lines[j], BarePrefix)
    THEN CommentEnd(lines, j + 1)
    ELSE j

\* variant: the scan without the closing marker line
RECURSIVE FixLinesNoClose(_, _, _, _)
FixLinesNoClose(lines, i, fixed, runs) ==
    IF i > Len(lines) THEN [fixed_lines |-> fixed, runs |-> runs]
    ELSE IF IsBrokenKDoc(lines[i])
         THEN LET j == CommentEnd(lines, i)
                  comment_lines == SubSeq(lines, i, j - 1)
              IN  FixLinesNoClose(lines, j,
                                  (fixed \o <<OpenMarker>>) \o comment_lines,
                                  Append(runs, <<i, j>>))
         ELSE FixLinesNoClose(lines, i + 1, Append(fixed, lines[i]), runs)

\* the outer while loop from index i on; runs records each <<i, j>> it wraps
RECURSIVE FixLines(_, _, _, _)
FixLines(lines, i, fixed, runs) ==
    IF i > Len(lines) THEN [fixed_lines |-> fixed, runs |-> runs]
    ELSE IF IsBrokenKDoc(lines[i])
         THEN LET j == CommentEnd(lines, i)
                  comment_lines == SubSeq(lines, i, j - 1)
              IN  FixLines(lines, j,
                           ((fixed \o <<OpenMarker>>) \o comment_lines) \o <<CloseMarker>>,
                           Append(runs, <<i, j>>))
         ELSE FixLines(lines, i + 1, Append(fixed, lines[i]), runs)

\* variant: the number of blocks instead of the number of lines
FixedCountRuns(lines) ==
    Cardinality({k \in DOMAIN lines :
        IsBrokenKDoc(lines[k]) /\ (k = 1 \/ ~IsBrokenKDoc(lines[k - 1]))})

\* the returned value: a filter over the lines that were read
FixedCount(lines) == Cardinality({k \in DOMAIN lines : IsBrokenKDoc(lines[k])})

\* ------------------------------------------------------------------ state
VARIABLES
    dirExists,      \* viewmodel_dir.exists()
    fs,             \* the directory: file name -> sequence of lines
    fs0,            \* fs as it was when the current run started
    runNo,          \* which run of the script this is
    pc,             \* position of main / fix_kdoc_in_file
    kotlin_files,   \* list(viewmodel_dir.glob('*.kt'))
    queue,          \* what is left of sorted(kotlin_files)
    filepath,       \* the file fix_kdoc_in_file is working on
    lines,          \* f.readlines()
    fixed_lines,    \* the repaired lines
    runs,           \* the <<i, j>> of every block the scan wrapped
    total_fixed,    \* main's total
    out,            \* what the current run printed
    ioLog,          \* open and close events of the current run
    counts,         \* per run, file name -> returned count
    exitCode,       \* -1 while running, else the exit status
    raised          \* an I/O error was raised in the current run

vars == <<dirExists, fs, fs0, runNo, pc, kotlin_files, queue, filepath, lines,
          fixed_lines, runs, total_fixed, out, ioLog, counts, exitCode, raised>>

\* all directories over the names S holding at most budget lines in total
RECURSIVE AllFs(_, _)
AllFs(S, budget) ==
    IF S = {} THEN {<<>>}
    ELSE LET n == CHOOSE x \in S : TRUE
         IN  UNION {{(n :> c) @@ rest : c \in [1..k -> LineSet],
                                       rest \in AllFs(S \ {n}, budget - k)}
                    : k \in 0..budget}

Init ==
    /\ dirExists \in BOOLEAN
    /\ fs \in (IF dirExists
               THEN UNION {{kt @@ other : kt \in AllFs(S, MaxLen),
                                          other \in {<<>>, NameKts :> <<BodyA>>}}
                           : S \in SUBSET {NameAB, NameB}}
               ELSE {<<>>})
    /\ fs0 = fs
    /\ runNo = 1
    /\ pc = "start"
    /\ kotlin_files = <<>>
    /\ queue = <<>>
    /\ filepath = <<>>
    /\ lines = <<>>
    /\ fixed_lines = <<>>
    /\ runs = <<>>
    /\ total_fixed = 0
    /\ out = <<>>
    /\ ioLog = <<>>
    /\ counts = <<>>
    /\ exitCode = -1
    /\ raised = FALSE

Emit(msg) == out' = Append(out, msg)

Log(event, name) == ioLog' = Append(ioLog, <<event, name>>)

\* an uncaught exception: the traceback ends the process with status 1
Abort ==
    /\ raised' = TRUE
    /\ pc' = "crashed"
    /\ exitCode' = 1

\* ------------------------------------------------------------------- main
\* if not viewmodel_dir.exists(): print, sys.exit(1)
DirMissing ==
    /\ pc = "start"
    /\ ~dirExists
    /\ Emit([kind |-> "error_no_dir"])
    /\ pc' = "exit_no_dir"
    /\ exitCode' = 1
    /\ UNCHANGED <<raised, dirExists, fs, fs0, runNo, kotlin_files, queue, filepath,
                   lines, fixed_lines, runs, total_fixed, ioLog, counts>>

\* kotlin_files = list(viewmodel_dir.glob('*.kt')), in any order
Glob ==
    /\ pc = "start"
    /\ dirExists
    /\ kotlin_files' \in Perms(GlobKt(DOMAIN fs))
    /\ pc' = "globbed"
    /\ UNCHANGED <<raised, dirExists, fs, fs0, runNo, queue, filepath, lines,
                   fixed_lines, runs, total_fixed, out, ioLog, counts, exitCode>>

\* variant: the empty file list reported but the run carried on
NoFilesIgnored ==
    /\ pc = "globbed"
    /\ kotlin_files = <<>>
    /\ Emit([kind |-> "error_no_files"])
    /\ pc' = "loop"
    /\ UNCHANGED <<raised, dirExists, fs, fs0, runNo, kotlin_files, queue, filepath,
                   lines, fixed_lines, runs, total_fixed, ioLog, counts, exitCode>>

\* if not kotlin_files: print, sys.exit(1)
NoFiles ==
    /\ pc = "globbed"
    /\ kotlin_files = <<>>
    /\ Emit([kind |-> "error_no_files"])
    /\ pc' = "exit_no_files"
    /\ exitCode' = 1
    /\ UNCHANGED <<raised, dirExists, fs, fs0, runNo, kotlin_files, queue, filepath,
                   lines, fixed_lines, runs, total_fixed, ioLog, counts>>

\* total_fixed = 0; for filepath in sorted(kotlin_files):
StartLoop ==
    /\ pc = "globbed"
    /\ kotlin_files # <<>>
    /\ total_fixed' = 0
    /\ queue' = Sorted(kotlin_files)
    /\ counts' = Append(counts, <<>>)
    /\ pc' = "loop"
    /\ UNCHANGED <<raised, dirExists, fs, fs0, runNo, kotlin_files, filepath, lines,
                   fixed_lines, runs, out, ioLog, exitCode>>

\* fix_kdoc_in_file(filepath): open(filepath, 'r')
OpenRead ==
    /\ pc = "loop"
    /\ queue # <<>>
    /\ filepath' = Head(queue)
    /\ Log("open_r", Head(queue))
    /\ pc' = "reading"
    /\ UNCHANGED <<raised, dirExists, fs, fs0, runNo, kotlin_files, queue, lines,
                   fixed_lines, runs, total_fixed, out, counts, exitCode>>

\* variant: the error of open caught and the file skipped
OpenReadFailSkipped ==
    /\ pc = "loop"
    /\ queue # <<>>
    /\ filepath' = Head(queue)
    /\ raised' = TRUE
    /\ queue' = Tail(queue)
    /\ UNCHANGED <<dirExists, fs, fs0, runNo, pc, kotlin_files, lines, fixed_lines,
                   runs, total_fixed, out, ioLog, counts, exitCode>>

\* open(filepath, 'r') raises
OpenReadFail ==
    /\ pc = "loop"
    /\ queue # <<>>
    /\ filepath' = Head(queue)
    /\ Abort
    /\ UNCHANGED <<dirExists, fs, fs0, runNo, kotlin_files, queue, lines,
                   fixed_lines, runs, total_fixed, out, ioLog, counts>>

\* lines = f.readlines(); the with block closes the file
ReadLines ==
    /\ pc = "reading"
    /\ lines' = fs[filepath]
    /\ Log("close_r", filepath)
    /\ pc' = "read"
    /\ UNCHANGED <<raised, dirExists, fs, fs0, runNo, kotlin_files, queue, filepath,
                   fixed_lines, runs, total_fixed, out, counts, exitCode>>

\* f.readlines() raises (a decoding error); the with block closes the file
ReadLinesFail ==
    /\ pc = "reading"
    /\ Log("close_r", filepath)
    /\ Abort
    /\ UNCHANGED <<dirExists, fs, fs0, runNo, kotlin_files, queue, filepath,
                   lines, fixed_lines, runs, total_fixed, out, counts>>

\* the scan: fixed_lines = [], i = 0, while i < len(lines): ...
Scan ==
    /\ pc = "read"
    /\ LET r == FixLines(lines, 1, <<>>, <<>>)
       IN  /\ fixed_lines' = r.fixed_lines
           /\ runs' = r.runs
    /\ pc' = "scanned"
    /\ UNCHANGED <<raised, dirExists, fs, fs0, runNo, kotlin_files, queue, filepath,
                   lines, total_fixed, out, ioLog, counts, exitCode>>

\* open(filepath, 'w') truncates the file
OpenWrite ==
    /\ pc = "scanned"
    /\ fs' = [fs EXCEPT ![filepath] = <<>>]
    /\ Log("open_w", filepath)
    /\ pc' = "writing"
    /\ UNCHANGED <<raised, dirExists, fs0, runNo, kotlin_files, queue, filepath, lines,
                   fixed_lines, runs, total_fixed, out, counts, exitCode>>

\* open(filepath, 'w') raises: the file is as it was
OpenWriteFail ==
    /\ pc = "scanned"
    /\ Abort
    /\ UNCHANGED <<dirExists, fs, fs0, runNo, kotlin_files, queue, filepath,
                   lines, fixed_lines, runs, total_fixed, out, ioLog, counts>>

\* f.writelines(fixed_lines); the with block closes the file
WriteLines ==
    /\ pc = "writing"
    /\ fs' = [fs EXCEPT ![filepath] = fixed_lines]
    /\ Log("close_w", filepath)
    /\ pc' = "written"
    /\ UNCHANGED <<raised, dirExists, fs0, runNo, kotlin_files, queue, filepath, lines,
                   fixed_lines, runs, total_fixed, out, counts, exitCode>>

\* f.writelines raises part way: some of the lines are in the file
WriteLinesFail ==
    /\ pc = "writing"
    /\ \E k \in 0..Len(fixed_lines) :
           fs' = [fs EXCEPT ![filepath] = SubSeq(fixed_lines, 1, k)]
    /\ Log("close_w", filepath)
    /\ Abort
    /\ UNCHANGED <<dirExists, fs0, runNo, kotlin_files, queue, filepath, lines,
                   fixed_lines, runs, total_fixed, out, counts>>

\* return len([...]); then main prints and adds the count
Return ==
    /\ pc = "written"
    /\ LET fixed_count == FixedCount(lines)
       IN  /\ counts' = [counts EXCEPT ![Len(counts)] = (filepath :> fixed_count) @@ @]
           /\ IF fixed_count > 0
              THEN /\ Emit([kind |-> "fixed", n |-> fixed_count, name |-> filepath])
                   /\ total_fixed' = total_fixed + fixed_count
              ELSE /\ Emit([kind |-> "no_issues", n |-> 0, name |-> filepath])
                   /\ total_fixed' = total_fixed
    /\ queue' = Tail(queue)
    /\ pc' = "loop"
    /\ UNCHANGED <<raised, dirExists, fs, fs0, runNo, kotlin_files, filepath, lines,
                   fixed_lines, runs, ioLog, exitCode>>

\* the loop is over: print the total; the process ends with status 0
Summary ==
    /\ pc = "loop"
    /\ queue = <<>>
    /\ Emit([kind |-> "total", n |-> total_fixed, files |-> Len(kotlin_files)])
    /\ pc' = "done"
    /\ exitCode' = 0
    /\ UNCHANGED <<raised, dirExists, fs, fs0, runNo, kotlin_files, queue, filepath,
                   lines, fixed_lines, runs, total_fixed, ioLog, counts>>

\* the script is run again on the directory it left behind
Rerun ==
    /\ pc = "done"
    /\ runNo < MaxRuns
    /\ runNo' = runNo + 1
    /\ fs0' = fs
    /\ pc' = "start"
    /\ kotlin_files' = <<>>
    /\ queue' = <<>>
    /\ filepath' = <<>>
    /\ lines' = <<>>
    /\ fixed_lines' = <<>>
    /\ runs' = <<>>
    /\ total_fixed' = 0
    /\ out' = <<>>
    /\ ioLog' = <<>>
    /\ exitCode' = -1
    /\ UNCHANGED <<raised, dirExists, fs, counts>>

Next ==
    \/ DirMissing
    \/ Glob
    \/ NoFiles
    \/ StartLoop
    \/ OpenRead
    \/ OpenReadFail
    \/ ReadLines
    \/ ReadLinesFail
    \/ Scan
    \/ OpenWrite
    \/ OpenWriteFail
    \/ WriteLines
    \/ WriteLinesFail
    \/ Return
    \/ Summary
    \/ Rerun

Spec == Init /\ [][Next]_vars

\* ------------------------------------------------ the specification's terms
\* the "bare body" and "already-opened" predicates of a line
Bare(l) ==
    /\ Len(l) >= 7
    /\ \A k \in 1..5 : l[k] = " "
    /\ l[6] = "*"
    /\ l[7] = " "

Opened(l) ==
    /\ Len(l) >= 7
    /\ \A k \in 1..4 : l[k] = " "
    /\ l[5] = "/" /\ l[6] = "*" /\ l[7] = "*"

\* the two marker lines, "    /**" and "     */", each with its line end
OpeningLine == <<" ", " ", " ", " ", "/", "*", "*", "\n">>

ClosingLine == <<" ", " ", " ", " ", " ", "*", "/", "\n">>

\* the Comment-Body Runs of L: the maximal <<s, e>> whose lines s .. e-1 all
\* are bare body lines that are not already opened
BodyRuns(L) ==
    LET body == [k \in 1..Len(L) |-> Bare(L[k]) /\ ~Opened(L[k])]
    IN  {r \in (1..Len(L)) \X (2..Len(L) + 1) :
            /\ r[1] < r[2]
            /\ \A k \in r[1]..(r[2] - 1) : body[k]
            /\ r[1] = 1 \/ ~body[r[1] - 1]
            /\ r[2] = Len(L) + 1 \/ ~body[r[2]]}

\* L with every Comment-Body Run between an opening and a closing marker
\* line; pos[k] is where line k of L stands once the marker lines are in
Repaired(L) ==
    LET R == BodyRuns(L)
        pos == [k \in 1..Len(L) |->
                   k + Cardinality({r \in R : r[1] <= k})
                     + Cardinality({r \in R : r[2] <= k})]
    IN  [p \in 1..(Len(L) + 2 * Cardinality(R)) |->
            IF \E k \in 1..Len(L) : pos[k] = p
            THEN L[CHOOSE k \in 1..Len(L) : pos[k] = p]
            ELSE IF \E r \in R : pos[r[1]] = p + 1
                 THEN OpeningLine
                 ELSE ClosingLine]

Range(s) == {s[k] : k \in DOMAIN s}

Occurrences(l, s) == Cardinality({k \in DOMAIN s : s[k] = l})

RECURSIVE RunLengths(_)
RunLengths(rs) ==
    IF rs = <<>> THEN 0 ELSE (Head(rs)[2] - Head(rs)[1]) + RunLengths(Tail(rs))

\* the scan of the current file is over and its result is at hand
Scanned == pc \in {"scanned", "writing", "written"}

\* fix_kdoc_in_file has returned for filepath in the current run
Returned == pc = "loop" /\ counts # <<>> /\ filepath \in DOMAIN counts[Len(counts)]

\* the matching files of the directory, in lexicographic order of their names
MatchingNames == {n \in DOMAIN fs : EndsWith(n, KtSuffix)}

\* the kind of the k-th event when every file is read, closed, opened for
\* writing and closed in turn
EventKind(k) ==
    CASE k % 4 = 1 -> "open_r"
      [] k % 4 = 2 -> "close_r"
      [] k % 4 = 3 -> "open_w"
      [] k % 4 = 0 -> "close_w"

\* ------------------------------------------------------------------ claims
\* C1: applying the repair to the output of a first repair yields exactly
\* that output: on a second run of the script, what is written to a file is
\* what was read from it.
C1_Idempotent ==
    (runNo >= 2 /\ Scanned => fixed_lines = lines)
    /\ (runNo >= 2 /\ pc = "written" => fs[filepath] = fs0[filepath])

\* C2: a bare body line whose preceding line is the opening-marker line is
\* not part of any run the scan wraps, so nothing is inserted around it and
\* it is not counted.
C2_NoRunAfterOpener ==
    Scanned =>
        \A k \in 2..Len(lines) :
            (Bare(lines[k]) /\ lines[k - 1] = OpeningLine) =>
                /\ ~\E n \in DOMAIN runs : runs[n][1] <= k /\ k < runs[n][2]
                /\ ~IsBrokenKDoc(lines[k])

C4_LineCount ==
    /\ Scanned => Len(fixed_lines) = Len(lines) + 2 * Len(runs)
    /\ pc = "written" => Len(fs[filepath]) = Len(fs0[filepath]) + 2 * Len(runs)

C4_Witness ==
    /\ pc = "written"
    /\ Len(runs) = 2
    /\ Len(fs[filepath]) = 7

\* C5: the returned value is the sum of the lengths of the runs the scan
\* detected, and it is the number main prints for the file.
C5_CountIsRunLengths ==
    Returned =>
        /\ counts[Len(counts)][filepath] = RunLengths(runs)
        /\ out[Len(out)].name = filepath
        /\ out[Len(out)].n = RunLengths(runs)

C5_Witness ==
    /\ Returned
    /\ Len(runs) = 1
    /\ counts[Len(counts)][filepath] = 3

\* C6: the runs the scan detects are maximal and disjoint: the line before a
\* run and the line after it are no bare body lines, and between two runs
\* there is at least one line.
C6_RunsMaximal ==
    Scanned =>
        /\ \A n \in DOMAIN runs :
              /\ 1 <= runs[n][1] /\ runs[n][1] < runs[n][2] /\ runs[n][2] <= Len(lines) + 1
              /\ \A k \in runs[n][1]..(runs[n][2] - 1) : Bare(lines[k])
              /\ runs[n][1] = 1 \/ ~Bare(lines[runs[n][1] - 1])
              /\ runs[n][2] = Len(lines) + 1 \/ ~Bare(lines[runs[n][2]])
        /\ \A m, n \in DOMAIN runs : m < n => runs[m][2] < runs[n][1]

C6_Witness ==
    /\ Scanned
    /\ runs = <<<<1, 2>>, <<3, 4>>>>

\* C7: when the directory does not exist or holds no matching file, the run
\* ends with status 1 and opens no file: nothing is read, nothing is written.
C7_StartupFailure ==
    /\ pc \in {"exit_no_dir", "exit_no_files"} =>
          exitCode = 1 /\ ioLog = <<>> /\ fs = fs0 /\ ~raised
    /\ (~dirExists \/ MatchingNames = {}) =>
          /\ pc \in {"start", "globbed", "exit_no_dir", "exit_no_files"}
          /\ exitCode \in {-1, 1}
          /\ ioLog = <<>>
          /\ fs = fs0
          /\ filepath = <<>>
          /\ ~ENABLED Next => exitCode = 1

C7_Witness ==
    /\ pc = "exit_no_files"
    /\ NameKts \in DOMAIN fs
    /\ exitCode = 1

\* C8: once an I/O error is raised the run is over with a failure status:
\* the files before the failing one hold their repaired content, the files
\* after it were neither read nor written, and no total was printed.
C8_FailFast ==
    raised =>
        /\ pc = "crashed"
        /\ exitCode = 1
        /\ ~ENABLED Next
        /\ queue # <<>> /\ Head(queue) = filepath
        /\ \A n \in MatchingNames \ Range(queue) : fs[n] = Repaired(fs0[n])
        /\ \A n \in Range(Tail(queue)) :
              /\ fs[n] = fs0[n]
              /\ \A k \in DOMAIN ioLog : ioLog[k][2] # n
        /\ \A n \in DOMAIN fs \ MatchingNames : fs[n] = fs0[n]
        /\ \A k \in DOMAIN out : out[k].kind # "total"

C8_Witness ==
    /\ raised
    /\ pc = "crashed"
    /\ queue = <<NameB>>
    /\ ioLog # <<>>
    /\ NameAB \in DOMAIN fs0
    /\ fs0[NameAB] = <<BodyA>>
    /\ fs[NameAB] = <<OpeningLine, BodyA, ClosingLine>>
    /\ ioLog[Len(ioLog)] = <<"close_w", NameB>>

\* C9: the files are opened and closed in the order of their names, each
\* read and closed, then opened for writing and closed, before the next is
\* opened; at the end every matching file was read once and written once.
C9_Sequential ==
    /\ \A k \in DOMAIN ioLog :
          /\ ioLog[k][1] = EventKind(k)
          /\ ioLog[k][2] \in MatchingNames
          /\ k % 4 # 1 => ioLog[k][2] = ioLog[k - 1][2]
          /\ (k % 4 = 1 /\ k > 1) => LexLess(ioLog[k - 1][2], ioLog[k][2])
    /\ pc = "done" => Len(ioLog) = 4 * Cardinality(MatchingNames)

C9_Witness ==
    /\ pc = "done"
    /\ kotlin_files = <<NameB, NameAB>>
    /\ Len(ioLog) = 8
    /\ counts[Len(counts)][NameB] = 0

====
